---------------------------- MODULE Spec2Model ----------------------------
(***************************************************************************)
(* knex-bun-sqlite: the sqlite3-shaped adapter over bun:sqlite.            *)
(*                                                                         *)
(* The adapter's code (index.js) is the JavaScript text at the end of      *)
(* src/README.md, lines 300-738.  The model has three layers:              *)
(*   - JavaScript values and normalizeParams, computed as the code does;   *)
(*   - the engine (bun:sqlite) as far as the adapter's calls observe it;   *)
(*   - the Database and Statement handlers, one action per method.         *)
(***************************************************************************)
EXTENDS Integers, Sequences, FiniteSets, TLC

(***************************************************************************)
(* Bounds of the model.                                                    *)
(***************************************************************************)
\* longest parameter array a caller passes to normalizeParams
MaxParams == 2

(***************************************************************************)
(* JavaScript values.  A value is a record tagged by k.  A Date is         *)
(* [day, ms]: the day number relative to 1970-01-01 (UTC) and the          *)
(* millisecond within that day; a JavaScript number that may hold an       *)
(* epoch-millisecond count is [hi, lo] with value hi * 86400000 + lo and   *)
(* 0 <= lo < 86400000, so that every value fits TLC's 32-bit integers.     *)
(***************************************************************************)
MsPerDay == 24 * 60 * 60 * 1000

Undefined == [k |-> "undefined"]
Null == [k |-> "null"]
NaN == [k |-> "NaN"]
Bool(b) == [k |-> "boolean", b |-> b]
Number(hi, lo) == [k |-> "number", hi |-> hi, lo |-> lo]
Num(n) == Number(n \div MsPerDay, n % MsPerDay)
BigInt(n) == [k |-> "bigint", n |-> n]
Text(chars) == [k |-> "string", chars |-> chars]
DateOf(day, ms) == [k |-> "Date", day |-> day, ms |-> ms]
InvalidDate == [k |-> "InvalidDate"]
BufferOf(bytes) == [k |-> "Buffer", bytes |-> bytes]
Uint8Array(bytes) == [k |-> "Uint8Array", bytes |-> bytes]
Array(items) == [k |-> "Array", items |-> items]
\* the outcome of a call that raised instead of returning
Thrown(err) == [k |-> "throw", err |-> err]

\* Array.isArray(v)
IsArray(v) == v.k = "Array"
\* v instanceof Date (an invalid Date is a Date too)
IsDate(v) == v.k \in {"Date", "InvalidDate"}
\* Buffer.isBuffer(v)
IsBuffer(v) == v.k = "Buffer"

\* d.getTime(): the epoch milliseconds of a Date, NaN for an invalid Date
getTime(d) == IF d.k = "Date" THEN Number(d.day, d.ms) ELSE NaN


(***************************************************************************)
(* Date.prototype.toISOString, as String.prototype.replace and substring   *)
(* see it in normalizeParams: text is a sequence of one-character strings. *)
(***************************************************************************)
DigitChars == <<"0", "1", "2", "3", "4", "5", "6", "7", "8", "9">>

RECURSIVE Pad(_, _)
\* the decimal digits of n >= 0, zero-padded on the left to the given width
Pad(n, width) ==
    IF width = 0 THEN <<>>
    ELSE Append(Pad(n \div 10, width - 1), DigitChars[(n % 10) + 1])

\* the civil (proleptic Gregorian, UTC) date of a day number: [y, m, d]
CivilFromDays(day) ==
    LET z == day + 719468
        era == z \div 146097
        doe == z - era * 146097
        yoe == (doe - doe \div 1460 + doe \div 36524 - doe \div 146096) \div 365
        doy == doe - (365 * yoe + yoe \div 4 - yoe \div 100)
        mp == (5 * doy + 2) \div 153
        d == doy - (153 * mp + 2) \div 5 + 1
        m == IF mp < 10 THEN mp + 3 ELSE mp - 9
        y == yoe + era * 400 + (IF m <= 2 THEN 1 ELSE 0)
    IN  [y |-> y, m |-> m, d |-> d]

\* the day number of a civil date (the inverse of CivilFromDays)
DaysFromCivil(y, m, d) ==
    LET yy == IF m <= 2 THEN y - 1 ELSE y
        era == yy \div 400
        yoe == yy - era * 400
        mp == IF m > 2 THEN m - 3 ELSE m + 9
        doy == (153 * mp + 2) \div 5 + d - 1
        doe == yoe * 365 + yoe \div 4 - yoe \div 100 + doy
    IN  era * 146097 + doe - 719468

\* the year of an ISO string: YYYY within 0..9999, else a sign and six digits
YearChars(y) ==
    IF y >= 0 /\ y <= 9999 THEN Pad(y, 4)
    ELSE IF y < 0 THEN <<"-">> \o Pad(0 - y, 6)
    ELSE <<"+">> \o Pad(y, 6)

\* d.toISOString() of a valid Date: 'YYYY-MM-DDTHH:MM:SS.sssZ'
toISOString(d) ==
    LET c == CivilFromDays(d.day)
        hh == d.ms \div 3600000
        mm == (d.ms \div 60000) % 60
        ss == (d.ms \div 1000) % 60
        ms == d.ms % 1000
    IN  YearChars(c.y) \o <<"-">> \o Pad(c.m, 2) \o <<"-">> \o Pad(c.d, 2)
        \o <<"T">> \o Pad(hh, 2) \o <<":">> \o Pad(mm, 2) \o <<":">> \o Pad(ss, 2)
        \o <<".">> \o Pad(ms, 3) \o <<"Z">>

\* s.replace('T', ' '): the first 'T' of s becomes a space
ReplaceT(s) ==
    IF \E i \in 1..Len(s) : s[i] = "T"
    THEN LET i == CHOOSE j \in 1..Len(s) :
                      s[j] = "T" /\ \A h \in 1..(j - 1) : s[h] # "T"
         IN  [s EXCEPT ![i] = " "]
    ELSE s

\* s.substring(0, n)
Substring0(s, n) == SubSeq(s, 1, IF Len(s) < n THEN Len(s) ELSE n)


(***************************************************************************)
(* normalizeParams (index.js lines 316-334).                               *)
(***************************************************************************)
\* normalizeParam without its undefined branch
normalizeParam_keepsUndefined(param) ==
    IF IsDate(param)
    THEN Text(Substring0(ReplaceT(toISOString(param)), 23))
    ELSE IF IsBuffer(param) THEN Uint8Array(param.bytes)
    ELSE param

\* normalizeParam copying all but the last byte of a Buffer
normalizeParam_shortensBuffer(param) ==
    IF IsDate(param)
    THEN Text(Substring0(ReplaceT(toISOString(param)), 23))
    ELSE IF param.k = "undefined" THEN Null
    ELSE IF IsBuffer(param)
    THEN Uint8Array(SubSeq(param.bytes, 1, Len(param.bytes) - 1))
    ELSE param

\* the mapper of params.map(...): one element of the parameter array
normalizeParam(param) ==
    IF IsDate(param)
    THEN Text(Substring0(ReplaceT(toISOString(param)), 23))
    ELSE IF param.k = "undefined" THEN Null
    ELSE IF IsBuffer(param) THEN Uint8Array(param.bytes)
    ELSE param

\* normalizeParams(params): an Array value, or the RangeError that
\* toISOString raises on an invalid Date
normalizeParams(params) ==
    LET arr == IF ~IsArray(params)
               THEN (IF params.k = "undefined" THEN <<>> ELSE <<params>>)
               ELSE params.items
    IN  IF \E i \in 1..Len(arr) : arr[i].k = "InvalidDate"
        THEN Thrown("RangeError")
        ELSE Array([i \in 1..Len(arr) |-> normalizeParam(arr[i])])

(***************************************************************************)
(* What a caller does with a normalized value: new Date(value) and the     *)
(* comparison of two values (JavaScript <, SQLite's BINARY collation).     *)
(***************************************************************************)
\* offsets from UTC, in minutes, of the time zones a process may run in
TimeZones == {0, 60, -300}

DigitVal(c) == CHOOSE n \in 0..9 : DigitChars[n + 1] = c
IsDigit(c) == \E n \in 0..9 : DigitChars[n + 1] = c

\* whether s has the shape 'YYYY-MM-DD HH:MM:SS.sss'
IsLocalDateTime(s) ==
    /\ Len(s) = 23
    /\ s[5] = "-" /\ s[8] = "-" /\ s[11] = " "
    /\ s[14] = ":" /\ s[17] = ":" /\ s[20] = "."
    /\ \A i \in (1..23) \ {5, 8, 11, 14, 17, 20} : IsDigit(s[i])

RECURSIVE DigitsVal(_)
DigitsVal(s) ==
    IF s = <<>> THEN 0
    ELSE 10 * DigitsVal(SubSeq(s, 1, Len(s) - 1)) + DigitVal(s[Len(s)])

\* new Date(v) in a process whose zone is tz minutes east of UTC: a number
\* is the epoch milliseconds; a string without 'T' and zone designator is
\* read as local time; a string of another shape gives an invalid Date
NewDate(v, tz) ==
    IF v.k = "number" THEN DateOf(v.hi, v.lo)
    ELSE IF v.k = "string" /\ IsLocalDateTime(v.chars)
    THEN LET s == v.chars
             day == DaysFromCivil(DigitsVal(SubSeq(s, 1, 4)),
                                  DigitsVal(SubSeq(s, 6, 7)),
                                  DigitsVal(SubSeq(s, 9, 10)))
             local == DigitsVal(SubSeq(s, 12, 13)) * 3600000
                      + DigitsVal(SubSeq(s, 15, 16)) * 60000
                      + DigitsVal(SubSeq(s, 18, 19)) * 1000
                      + DigitsVal(SubSeq(s, 21, 23))
             utc == local - tz * 60000
         IN  DateOf(day + utc \div MsPerDay, utc % MsPerDay)
    ELSE InvalidDate

\* the UTF-16 code unit of the characters that occur in the model's text
CharCode(c) ==
    CASE c = " " -> 32 [] c = "+" -> 43 [] c = "-" -> 45 [] c = "." -> 46
      [] IsDigit(c) -> 48 + DigitVal(c)
      [] c = ":" -> 58 [] c = "T" -> 84 [] c = "Z" -> 90 [] OTHER -> 97

RECURSIVE TextLeq(_, _)
\* s <= t for two strings: code unit by code unit, a prefix first
TextLeq(s, t) ==
    IF s = <<>> THEN TRUE
    ELSE IF t = <<>> THEN FALSE
    ELSE IF CharCode(Head(s)) # CharCode(Head(t))
         THEN CharCode(Head(s)) < CharCode(Head(t))
         ELSE TextLeq(Tail(s), Tail(t))

\* a <= b for two values of the same kind (numbers or strings)
ValueLeq(a, b) ==
    IF a.k = "number" /\ b.k = "number"
    THEN a.hi < b.hi \/ (a.hi = b.hi /\ a.lo <= b.lo)
    ELSE IF a.k = "string" /\ b.k = "string" THEN TextLeq(a.chars, b.chars)
    ELSE FALSE

(***************************************************************************)
(* Sample values.                                                          *)
(***************************************************************************)
Date1970 == DateOf(0, 0)
\* 2024-01-15T10:30:00.000Z, epoch milliseconds 1705314600000
Date2024 == DateOf(19737, 37800000)
\* 2025-03-15T14:30:45.123Z
Date2025 == DateOf(20162, 52245123)
\* 1969-12-31T23:59:59.999Z
Date1969 == DateOf(-1, MsPerDay - 1)
\* +010000-01-01T00:00:00.007Z, a year that toISOString writes in six digits
Date10000 == DateOf(2932897, 7)

\* the elements normalizeParams is applied to on its own
NormVals ==
    { Date1970, Date2024, Date2025, Date1969, Date10000, InvalidDate,
      Undefined, Null, Num(1), Number(19737, 37800000), Text(<<"a">>),
      Bool(TRUE), BigInt(9), BufferOf(<<>>), BufferOf(<<1, 2>>),
      Uint8Array(<<7>>) }

RECURSIVE SeqsUpTo(_, _)
\* the sequences over S of length at most n
SeqsUpTo(S, n) ==
    IF n = 0 THEN {<<>>}
    ELSE LET shorter == SeqsUpTo(S, n - 1)
         IN  shorter \cup {Append(q, x) : q \in {r \in shorter : Len(r) = n - 1}, x \in S}

\* a normalizeParams that writes the converted values into the array it
\* was given
AfterNormalizeParams_inPlace(params) ==
    IF IsArray(params) /\ normalizeParams(params).k = "Array"
    THEN normalizeParams(params)
    ELSE params

\* the caller's value after normalizeParams(params) has returned or raised:
\* the function assigns only its own variable params (a fresh array when
\* the value is no array), map builds a new array, its callback only reads
\* param, and new Uint8Array(param) copies the Buffer's bytes
AfterNormalizeParams(params) == params

\* the arguments normalizeParams is called with: nothing, one value, an array
NormInputs == NormVals \cup {Array(q) : q \in SeqsUpTo(NormVals, MaxParams)}

VARIABLES
    nIn,    \* the argument of the latest direct normalizeParams call
    nOut,   \* what that call returned or raised
    nArg    \* the caller's argument as it is after that call

normVars == <<nIn, nOut, nArg>>

NotCalled == [k |-> "none"]


(***************************************************************************)
(* The engine, bun:sqlite, as the adapter's calls observe it.  Every       *)
(* session holds one table t(id INTEGER PRIMARY KEY, x NOT NULL); a        *)
(* statement is one of five SQL texts:                                     *)
(*   INSERT   INSERT INTO t(x) VALUES (?)                                  *)
(*   UPDATE0  UPDATE t SET x = x WHERE 0        (matches no row)           *)
(*   SELECT   SELECT id, x FROM t ORDER BY id                              *)
(*   ECHO     SELECT ? AS a, ? AS b                                        *)
(*   BAD      text that is not SQL                                         *)
(***************************************************************************)
\* rows a session's table may hold
MaxRows == 2

Conns == {"A", "B"}
StmtIds == {"s1", "s2"}
SqlTexts == {"INSERT", "UPDATE0", "SELECT", "ECHO", "BAD"}

\* the number of ? placeholders of a statement
Placeholders(sql) ==
    CASE sql = "INSERT" -> 1 [] sql = "ECHO" -> 2 [] OTHER -> 0

\* the kinds the engine's binding layer accepts: string, TypedArray (a
\* Buffer is one), boolean, number, bigint, null
Bindable(v) ==
    v.k \in {"string", "number", "NaN", "boolean", "null", "bigint",
             "Uint8Array", "Buffer"}

\* the value a column holds, and a query returns, for a bound value
Stored(v) ==
    IF v.k = "boolean" THEN (IF v.b THEN Num(1) ELSE Num(0))
    ELSE IF v.k = "Buffer" THEN Uint8Array(v.bytes)
    ELSE v

\* the bindings of stmt.run(...args): a leading array is the binding list
EngineBindings(args) ==
    IF Len(args) > 0 /\ IsArray(args[1]) THEN args[1].items ELSE args

\* new BunDatabase(filename): the session opens unless the file cannot be
EngineOpen(filename) ==
    IF filename = ":memory:" THEN "none" ELSE "OpenError"

\* db.prepare(sql) on the adapter's this.db: its error, "none" if it succeeds
EnginePrepare(dbState, sql) ==
    IF dbState = "failed" THEN "TypeError"
    ELSE IF dbState = "closed" THEN "ClosedError"
    ELSE IF sql = "BAD" THEN "PrepareError"
    ELSE "none"

\* stmt.run / stmt.get / stmt.all (prim) with args on a session holding
\* rows: [err, result, rows]
EngineExecute(prim, sql, args, rows) ==
    LET b == EngineBindings(args)
        val(i) == IF i <= Len(b) THEN Stored(b[i]) ELSE Null
        fail(e) == [err |-> e, result |-> Undefined, rows |-> rows]
        ok(r, rs) == [err |-> "none", result |-> r, rows |-> rs]
        found == IF sql = "SELECT" THEN rows
                 ELSE IF sql = "ECHO" THEN <<[a |-> val(1), b |-> val(2)]>>
                 ELSE <<>>
    IN  IF \E i \in 1..Len(b) : ~Bindable(b[i]) THEN fail("BindError")
        ELSE IF Len(b) > Placeholders(sql) THEN fail("BindError")
        ELSE IF sql = "INSERT" /\ val(1).k = "null" THEN fail("ExecError")
        ELSE IF prim = "run"
        THEN IF sql = "INSERT"
             THEN ok([lastInsertRowid |-> Len(rows) + 1, changes |-> 1],
                     Append(rows, [id |-> Len(rows) + 1, x |-> val(1)]))
             ELSE ok([lastInsertRowid |-> Len(rows), changes |-> 0], rows)
        ELSE IF sql = "INSERT"
        THEN ok(IF prim = "get" THEN Undefined ELSE Array(<<>>),
                Append(rows, [id |-> Len(rows) + 1, x |-> val(1)]))
        ELSE IF prim = "get"
        THEN ok(IF found = <<>> THEN Undefined ELSE found[1], rows)
        ELSE ok(Array(found), rows)

\* the errors the engine raises, as opposed to the JavaScript runtime
EngineErrors == {"OpenError", "PrepareError", "BindError", "ExecError",
                 "ClosedError", "FinalizedError"}


(***************************************************************************)
(* Completion routines.  A function value says what its body does when it  *)
(* is invoked: "ok" returns, "raise" raises CallbackError.                 *)
(***************************************************************************)
Fn(does) == [k |-> "function", does |-> does]
\* typeof v === 'function'
IsFunction(v) == v.k = "function"
\* if (callback): undefined is falsy, a function is truthy
Given(callback) == IsFunction(callback)
Raises(callback) == IsFunction(callback) /\ callback.does = "raise"

\* the receiver of a routine invoked as callback.call(this, ...)
This == [k |-> "this"]

\* one entry of a call's engine log: a primitive, its arguments, its error
EngineCall(prim, args, err) == [prim |-> prim, args |-> args, err |-> err]
\* one invocation of a routine: which, its first argument, receiver, result
Invocation(fn, err, this, arg) ==
    [fn |-> fn, err |-> err, this |-> this, arg |-> arg]

\* what a call did: its outcome ("returned" | "threw" and the error), the
\* value returned, the routine invocations and engine calls in order, how
\* often normalizeParams ran, and the session's rows afterwards
Done(outcome, err, ret, inv, engine, norm, rows) ==
    [outcome |-> outcome, err |-> err, ret |-> ret, inv |-> inv,
     engine |-> engine, norm |-> norm, rows |-> rows]

\* a catch block that raises the error although a callback was given
CatchCallbackOrThrow_rethrows(tryErr, callback, ret, inv, engine, norm, rows) ==
    IF tryErr = "none"
    THEN Done("returned", "none", ret, inv, engine, norm, rows)
    ELSE Done("threw", tryErr, Undefined, inv, engine, norm, rows)

\* catch (err) { if (callback) callback.call(this, err) else throw err }
\* after a try block that ended with tryErr ("none": it completed)
CatchCallbackOrThrow(tryErr, callback, ret, inv, engine, norm, rows) ==
    IF tryErr = "none"
    THEN Done("returned", "none", ret, inv, engine, norm, rows)
    ELSE IF Given(callback)
    THEN LET inv2 == Append(inv, Invocation("callback", tryErr, This, Undefined))
         IN  IF Raises(callback)
             THEN Done("threw", "CallbackError", Undefined, inv2, engine, norm, rows)
             ELSE Done("returned", "none", Undefined, inv2, engine, norm, rows)
    ELSE Done("threw", tryErr, Undefined, inv, engine, norm, rows)

\* catch (err) { if (callback) callback(err) }: no else branch
CatchCallbackOnly(tryErr, callback, ret, inv, engine, norm, rows) ==
    IF tryErr = "none"
    THEN Done("returned", "none", ret, inv, engine, norm, rows)
    ELSE IF Given(callback)
    THEN LET inv2 == Append(inv, Invocation("callback", tryErr, This, Undefined))
         IN  IF Raises(callback)
             THEN Done("threw", "CallbackError", Undefined, inv2, engine, norm, rows)
             ELSE Done("returned", "none", Undefined, inv2, engine, norm, rows)
    ELSE Done("returned", "none", Undefined, inv, engine, norm, rows)

\* a catch block of each that tells only completeCallback
CatchEach_doneOnly(tryErr, rowCallback, completeCallback, inv, engine, norm, rows) ==
    IF tryErr = "none"
    THEN Done("returned", "none", Undefined, inv, engine, norm, rows)
    ELSE IF Given(completeCallback)
    THEN Done(IF Raises(completeCallback) THEN "threw" ELSE "returned",
              IF Raises(completeCallback) THEN "CallbackError" ELSE "none",
              Undefined,
              Append(inv, Invocation("completeCallback", tryErr, This, Undefined)),
              engine, norm, rows)
    ELSE Done("returned", "none", Undefined, inv, engine, norm, rows)

\* the catch block of each: rowCallback(err), then completeCallback(err)
CatchEach(tryErr, rowCallback, completeCallback, inv, engine, norm, rows) ==
    IF tryErr = "none"
    THEN Done("returned", "none", Undefined, inv, engine, norm, rows)
    ELSE LET inv2 == IF Given(rowCallback)
                     THEN Append(inv, Invocation("rowCallback", tryErr, This, Undefined))
                     ELSE inv
             inv3 == IF Given(completeCallback)
                     THEN Append(inv2, Invocation("completeCallback", tryErr, This, Undefined))
                     ELSE inv2
         IN  IF Raises(rowCallback)
             THEN Done("threw", "CallbackError", Undefined, inv2, engine, norm, rows)
             ELSE IF Raises(completeCallback)
             THEN Done("threw", "CallbackError", Undefined, inv3, engine, norm, rows)
             ELSE Done("returned", "none", Undefined, inv3, engine, norm, rows)

\* a context whose lastID is taken from result.changes
Context_lastIDFromChanges(result) ==
    [k |-> "context",
     lastID |-> IF result.changes # 0 THEN Num(result.changes) ELSE Undefined,
     changes |-> Num(result.changes)]

\* the run-result context: { lastID: result.lastInsertRowid ?
\*   Number(result.lastInsertRowid) : undefined, changes: result.changes || 0 }
Context(result) ==
    [k |-> "context",
     lastID |-> IF result.lastInsertRowid # 0
                THEN Num(result.lastInsertRowid) ELSE Undefined,
     changes |-> Num(result.changes)]

\* a loop of each that delivers the rows found last to first
EachLoop_lastRowFirst(found, rowCallback, completeCallback) ==
    LET n == Len(found)
        rowInv == IF ~Given(rowCallback) \/ n = 0 THEN <<>>
                  ELSE IF Raises(rowCallback)
                  THEN <<Invocation("rowCallback", "null", This, found[n])>>
                  ELSE [i \in 1..n |->
                           Invocation("rowCallback", "null", This, found[n + 1 - i])]
    IN  IF Raises(rowCallback) /\ n > 0
        THEN [err |-> "CallbackError", inv |-> rowInv]
        ELSE IF Given(completeCallback)
        THEN [err |-> IF Raises(completeCallback) THEN "CallbackError" ELSE "none",
              inv |-> Append(rowInv, Invocation("completeCallback", "null", This, Num(n)))]
        ELSE [err |-> "none", inv |-> rowInv]

\* the for loop of each over the rows found, then completeCallback(null,
\* count): [err, inv]
EachLoop(found, rowCallback, completeCallback) ==
    LET n == Len(found)
        rowInv == IF ~Given(rowCallback) \/ n = 0 THEN <<>>
                  ELSE IF Raises(rowCallback)
                  THEN <<Invocation("rowCallback", "null", This, found[1])>>
                  ELSE [i \in 1..n |-> Invocation("rowCallback", "null", This, found[i])]
    IN  IF Raises(rowCallback) /\ n > 0
        THEN [err |-> "CallbackError", inv |-> rowInv]
        ELSE IF Given(completeCallback)
        THEN [err |-> IF Raises(completeCallback) THEN "CallbackError" ELSE "none",
              inv |-> Append(rowInv, Invocation("completeCallback", "null", This, Num(n)))]
        ELSE [err |-> "none", inv |-> rowInv]


(***************************************************************************)
(* class Database (index.js lines 336-536).  Each operator is one method:  *)
(* from the object's state (dbState: "open", "failed" when this.db is      *)
(* undefined, "closed"), the session's rows and the arguments to what the  *)
(* call did.                                                               *)
(***************************************************************************)
\* the items of what normalizeParams returned, none if it raised
Items(np) == IF np.k = "Array" THEN np.items ELSE <<>>

\* the engine log of a one-shot call up to its prepare
PrepareLog(prep) ==
    IF prep = "TypeError" THEN <<>> ELSE <<EngineCall("prepare", <<>>, prep)>>

\* a one-shot call that executes a second time after a failure
OneShotExecuted_retries(prim, np, prep, ex) ==
    IF ex.err # "none"
    THEN [err |-> ex.err, result |-> Undefined,
          engine |-> PrepareLog(prep)
                     \o <<EngineCall(prim, np.items, ex.err),
                          EngineCall(prim, np.items, ex.err)>>,
          norm |-> 1, rows |-> ex.rows]
    ELSE [err |-> "none", result |-> ex.result,
          engine |-> PrepareLog(prep)
                     \o <<EngineCall(prim, np.items, "none"),
                          EngineCall("finalize", <<>>, "none")>>,
          norm |-> 1, rows |-> ex.rows]

\* stmt.<prim>(...normalizedParams) has answered ex; on success
\* stmt.finalize() follows
OneShotExecuted(prim, np, prep, ex) ==
    IF ex.err # "none"
    THEN [err |-> ex.err, result |-> Undefined,
          engine |-> Append(PrepareLog(prep), EngineCall(prim, np.items, ex.err)),
          norm |-> 1, rows |-> ex.rows]
    ELSE [err |-> "none", result |-> ex.result,
          engine |-> PrepareLog(prep)
                     \o <<EngineCall(prim, np.items, "none"),
                          EngineCall("finalize", <<>>, "none")>>,
          norm |-> 1, rows |-> ex.rows]

\* normalizeParams has answered np and this.db.prepare(sql) prep
OneShotPrepared(prim, rows, sql, np, prep) ==
    IF np.k = "throw"
    THEN [err |-> np.err, result |-> Undefined, engine |-> <<>>,
          norm |-> 1, rows |-> rows]
    ELSE IF prep # "none"
    THEN [err |-> prep, result |-> Undefined, engine |-> PrepareLog(prep),
          norm |-> 1, rows |-> rows]
    ELSE OneShotExecuted(prim, np, prep,
                         EngineExecute(prim, sql, Items(np), rows))

\* the part run, get, all and each share: the argument shift, then
\* normalizeParams, this.db.prepare, stmt.<prim>(...normalizedParams),
\* stmt.finalize(): [err, result, engine, norm, rows]
OneShot(prim, dbState, rows, sql, params) ==
    OneShotPrepared(prim, rows, sql,
                    normalizeParams(IF IsFunction(params) THEN Array(<<>>) ELSE params),
                    EnginePrepare(dbState, sql))

\* the callback after the argument shift of run, get, all, prepare
ShiftedCallback(params, callback) ==
    IF IsFunction(params) THEN params ELSE callback

\* the end of run: callback.call(context, null), and the catch block
RunSettled(cb, ret, o) ==
    CatchCallbackOrThrow(
        IF o.err = "none" /\ Raises(cb) THEN "CallbackError" ELSE o.err,
        cb, ret,
        IF o.err = "none" /\ Given(cb)
        THEN <<Invocation("callback", "null", Context(o.result), Undefined)>>
        ELSE <<>>,
        o.engine, o.norm, o.rows)

\* get and all that return nothing when a callback was given
QuerySettled_returnsNothingWithCallback(cb, o) ==
    CatchCallbackOrThrow(
        IF o.err = "none" /\ Raises(cb) THEN "CallbackError" ELSE o.err,
        cb, IF Given(cb) THEN Undefined ELSE o.result,
        IF o.err = "none" /\ Given(cb)
        THEN <<Invocation("callback", "null", This, o.result)>>
        ELSE <<>>,
        o.engine, o.norm, o.rows)

\* the end of get and all: callback.call(this, null, result), return
\* result, and the catch block
QuerySettled(cb, o) ==
    CatchCallbackOrThrow(
        IF o.err = "none" /\ Raises(cb) THEN "CallbackError" ELSE o.err,
        cb, o.result,
        IF o.err = "none" /\ Given(cb)
        THEN <<Invocation("callback", "null", This, o.result)>>
        ELSE <<>>,
        o.engine, o.norm, o.rows)

\* the loop of each has ended as loop says: the catch block
EachCaught(rowCb, doneCb, o, loop) ==
    CatchEach(loop.err, rowCb, doneCb, loop.inv, o.engine, o.norm, o.rows)

\* the end of each: the loop over the rows and the catch block
EachSettled(rowCb, doneCb, o) ==
    IF o.err # "none"
    THEN CatchEach(o.err, rowCb, doneCb, <<>>, o.engine, o.norm, o.rows)
    ELSE EachCaught(rowCb, doneCb, o, EachLoop(Items(o.result), rowCb, doneCb))

\* Database.run(sql, params, callback)
Database_run(dbState, rows, sql, params, callback) ==
    RunSettled(ShiftedCallback(params, callback), Undefined,
               OneShot("run", dbState, rows, sql, params))

\* Database.get(sql, params, callback)
Database_get(dbState, rows, sql, params, callback) ==
    QuerySettled(ShiftedCallback(params, callback),
                 OneShot("get", dbState, rows, sql, params))

\* Database.all(sql, params, callback)
Database_all(dbState, rows, sql, params, callback) ==
    QuerySettled(ShiftedCallback(params, callback),
                 OneShot("all", dbState, rows, sql, params))

\* Database.each(sql, params, rowCallback, completeCallback)
Database_each(dbState, rows, sql, params, rowCallback, completeCallback) ==
    EachSettled(IF IsFunction(params) THEN params ELSE rowCallback,
                IF IsFunction(params) THEN rowCallback ELSE completeCallback,
                OneShot("all", dbState, rows, sql, params))

\* Database.exec(sql, callback): this.db.run(sql)
Database_exec(dbState, rows, sql, callback) ==
    LET prep == EnginePrepare(dbState, sql)
        engine == IF prep = "TypeError" THEN <<>>
                  ELSE <<EngineCall("exec", <<>>, prep)>>
        inv == IF prep = "none" /\ Given(callback)
               THEN <<Invocation("callback", "null", This, Undefined)>>
               ELSE <<>>
        tryErr == IF prep = "none" /\ Raises(callback) THEN "CallbackError" ELSE prep
    IN  CatchCallbackOrThrow(tryErr, callback, Undefined, inv, engine, 0, rows)

\* Database.prepare(sql, params, callback): the Statement it returns is
\* [k |-> "Statement", id |-> s]; params is not used
Database_prepare(dbState, rows, sql, params, callback, s) ==
    LET cb == ShiftedCallback(params, callback)
        prep == EnginePrepare(dbState, sql)
        engine == IF prep = "TypeError" THEN <<>>
                  ELSE <<EngineCall("prepare", <<>>, prep)>>
        stmt == [k |-> "Statement", id |-> s]
        inv == IF prep = "none" /\ Given(cb)
               THEN <<Invocation("callback", "null", stmt, Undefined)>>
               ELSE <<>>
        tryErr == IF prep = "none" /\ Raises(cb) THEN "CallbackError" ELSE prep
    IN  CatchCallbackOrThrow(tryErr, cb, stmt, inv, engine, 0, rows)

\* Database.close(callback): this.db.close()
Database_close(dbState, rows, callback) ==
    LET err == IF dbState = "failed" THEN "TypeError" ELSE "none"
        engine == IF err = "none" THEN <<EngineCall("close", <<>>, "none")>> ELSE <<>>
        inv == IF err = "none" /\ Given(callback)
               THEN <<Invocation("callback", "null", Undefined, Undefined)>>
               ELSE <<>>
        tryErr == IF err = "none" /\ Raises(callback) THEN "CallbackError" ELSE err
    IN  CatchCallbackOnly(tryErr, callback, Undefined, inv, engine, 0, rows)

\* serialize and parallelize that never call the callback
Database_serialize_dropsCallback(rows, callback) ==
    Done("returned", "none", Undefined, <<>>, <<>>, 0, rows)

\* Database.serialize(callback) and Database.parallelize(callback)
Database_serialize(rows, callback) ==
    IF Given(callback)
    THEN LET inv == <<Invocation("callback", "undefined", Undefined, Undefined)>>
         IN  IF Raises(callback)
             THEN Done("threw", "CallbackError", Undefined, inv, <<>>, 0, rows)
             ELSE Done("returned", "none", Undefined, inv, <<>>, 0, rows)
    ELSE Done("returned", "none", Undefined, <<>>, <<>>, 0, rows)


\* Database.parallelize(callback) has the body of serialize
Database_parallelize(rows, callback) == Database_serialize(rows, callback)

(***************************************************************************)
(* class Statement (index.js lines 538-703).  A Statement object is        *)
(* [db, sql, bound, finalized]: the connection that prepared it, its SQL,  *)
(* this.boundParams (Undefined until bind is called, then an Array) and    *)
(* whether its engine handle has been released.                            *)
(***************************************************************************)
\* a prepare whose Statement is tied to the first connection's session
NewStatement_sharedSession(c, sql) ==
    [db |-> "A", sql |-> sql, bound |-> Undefined, finalized |-> FALSE]

\* new Statement(stmt, this) in prepare
NewStatement(c, sql) ==
    [db |-> c, sql |-> sql, bound |-> Undefined, finalized |-> FALSE]

\* Statement.bind(...params): this.boundParams = params
Statement_bind(st, params) == [st EXCEPT !.bound = Array(params)]

\* the callback of run, get, all: the last argument if it is a function
TrailingCallback(args) ==
    IF Len(args) > 0 /\ IsFunction(args[Len(args)])
    THEN args[Len(args)] ELSE Undefined

\* the params of run, get, all with this.boundParams taking precedence
EffectiveParams_boundFirst(st, args) ==
    LET params == IF Given(TrailingCallback(args))
                  THEN SubSeq(args, 1, Len(args) - 1) ELSE args
    IN  IF st.bound.k # "undefined" THEN st.bound.items ELSE params

\* the params of run, get, all: the arguments without that callback, and
\* this.boundParams in their place if there are none
EffectiveParams(st, args) ==
    LET params == IF Given(TrailingCallback(args))
                  THEN SubSeq(args, 1, Len(args) - 1) ELSE args
    IN  IF st.bound.k # "undefined" /\ Len(params) = 0
        THEN st.bound.items ELSE params

\* a Statement call that releases the handle after executing
StatementExecuted_finalizes(prim, np, ex) ==
    [err |-> ex.err, result |-> ex.result,
     engine |-> <<EngineCall(prim, np.items, ex.err),
                  EngineCall("finalize", <<>>, "none")>>,
     norm |-> 1, rows |-> ex.rows]

\* this.stmt.<prim>(...normalizedParams) has answered ex
StatementExecuted(prim, np, ex) ==
    [err |-> ex.err, result |-> ex.result,
     engine |-> <<EngineCall(prim, np.items, ex.err)>>,
     norm |-> 1, rows |-> ex.rows]

\* normalizeParams has answered np
StatementNormalized(prim, st, rows, np) ==
    IF np.k = "throw"
    THEN [err |-> np.err, result |-> Undefined, engine |-> <<>>,
          norm |-> 1, rows |-> rows]
    ELSE StatementExecuted(prim, np, EngineExecute(prim, st.sql, Items(np), rows))

\* normalizeParams(params), then this.stmt.<prim>(...normalizedParams):
\* [err, result, engine, norm, rows]
StatementExecute(prim, st, rows, params) ==
    StatementNormalized(prim, st, rows, normalizeParams(Array(params)))

\* return this, after the try statement of run, each, finalize
ReturnThis(self, r) ==
    IF r.outcome = "returned" THEN [r EXCEPT !.ret = self] ELSE r

\* Statement.run(...args); self is the value of this, which run returns
Statement_run(st, self, rows, args) ==
    ReturnThis(self,
               RunSettled(TrailingCallback(args), self,
                          StatementExecute("run", st, rows, EffectiveParams(st, args))))

\* Statement.get(...args)
Statement_get(st, rows, args) ==
    QuerySettled(TrailingCallback(args),
                 StatementExecute("get", st, rows, EffectiveParams(st, args)))

\* Statement.all(...args)
Statement_all(st, rows, args) ==
    QuerySettled(TrailingCallback(args),
                 StatementExecute("all", st, rows, EffectiveParams(st, args)))

\* the argument loop of Statement.each: the first function is rowCallback,
\* a later one completeCallback, anything else a parameter
EachArguments(args) ==
    LET fns == SelectSeq(args, IsFunction)
        notFunction(v) == ~IsFunction(v)
    IN  [params |-> SelectSeq(args, notFunction),
         rowCallback |-> IF Len(fns) > 0 THEN fns[1] ELSE Undefined,
         completeCallback |-> IF Len(fns) > 1 THEN fns[Len(fns)] ELSE Undefined]

\* the params of each: the parsed ones, this.boundParams if there are none
EachParams(st, a) ==
    IF st.bound.k # "undefined" /\ Len(a.params) = 0
    THEN st.bound.items ELSE a.params

\* Statement.each with its arguments parsed into a
StatementEachParsed(st, self, rows, a) ==
    ReturnThis(self,
               EachSettled(a.rowCallback, a.completeCallback,
                           StatementExecute("all", st, rows, EachParams(st, a))))

\* Statement.each(...args)
Statement_each(st, self, rows, args) ==
    StatementEachParsed(st, self, rows, EachArguments(args))

\* a reset that returns without having called the callback
Statement_reset_dropsCallback(self, rows, callback) ==
    Done("returned", "none", self, <<>>, <<>>, 0, rows)

\* Statement.reset(callback): the callback is called outside any try
Statement_reset(self, rows, callback) ==
    IF Given(callback)
    THEN LET inv == <<Invocation("callback", "null", This, Undefined)>>
         IN  IF Raises(callback)
             THEN Done("threw", "CallbackError", Undefined, inv, <<>>, 0, rows)
             ELSE Done("returned", "none", self, inv, <<>>, 0, rows)
    ELSE Done("returned", "none", self, <<>>, <<>>, 0, rows)

\* Statement.finalize(callback): this.stmt.finalize(), which does not fail
Statement_finalize(self, rows, callback) ==
    LET engine == <<EngineCall("finalize", <<>>, "none")>>
        inv == IF Given(callback)
               THEN <<Invocation("callback", "null", This, Undefined)>>
               ELSE <<>>
        tryErr == IF Raises(callback) THEN "CallbackError" ELSE "none"
    IN  ReturnThis(self, CatchCallbackOnly(tryErr, callback, self, inv, engine, 0, rows))


\* a constructor that invokes the callback itself, before it returns
Database_constructor_callsBack(filename, mode, callback) ==
    LET cb == IF IsFunction(mode) THEN mode ELSE callback
        err == EngineOpen(filename)
        engine == <<EngineCall("open", <<>>, err)>>
        inv == IF Given(cb)
               THEN <<Invocation("callback", IF err = "none" THEN "null" ELSE err,
                                 This, Undefined)>>
               ELSE <<>>
    IN  IF err = "none"
        THEN [done |-> Done("returned", "none", This, inv, engine, 0, <<>>),
              state |-> "open", scheduled |-> <<>>]
        ELSE IF Given(cb)
        THEN [done |-> Done("returned", "none", This, inv, engine, 0, <<>>),
              state |-> "failed", scheduled |-> <<>>]
        ELSE [done |-> Done("threw", err, Undefined, <<>>, engine, 0, <<>>),
              state |-> "absent", scheduled |-> <<>>]

\* a constructor that raises the open's error although a callback was given
Database_constructor_throwsAnyway(filename, mode, callback) ==
    LET err == EngineOpen(filename)
        engine == <<EngineCall("open", <<>>, err)>>
        cb == IF IsFunction(mode) THEN mode ELSE callback
    IN  IF err = "none"
        THEN [done |-> Done("returned", "none", This, <<>>, engine, 0, <<>>),
              state |-> "open",
              scheduled |-> IF Given(cb) THEN <<[callback |-> cb, err |-> err]>>
                            ELSE <<>>]
        ELSE [done |-> Done("threw", err, Undefined, <<>>, engine, 0, <<>>),
              state |-> "absent", scheduled |-> <<>>]

\* Database's constructor(filename, mode, callback): what the new
\* expression did, the state of the object (this.db is set or not) and
\* the functions handed to process.nextTick
Database_constructor(filename, mode, callback) ==
    LET cb == IF IsFunction(mode) THEN mode ELSE callback
        err == EngineOpen(filename)
        engine == <<EngineCall("open", <<>>, err)>>
        scheduled == IF Given(cb) THEN <<[callback |-> cb, err |-> err]>> ELSE <<>>
    IN  IF err = "none"
        THEN [done |-> Done("returned", "none", This, <<>>, engine, 0, <<>>),
              state |-> "open", scheduled |-> scheduled]
        ELSE IF Given(cb)
        THEN [done |-> Done("returned", "none", This, <<>>, engine, 0, <<>>),
              state |-> "failed", scheduled |-> scheduled]
        ELSE [done |-> Done("threw", err, Undefined, <<>>, engine, 0, <<>>),
              state |-> "absent", scheduled |-> <<>>]

(***************************************************************************)
(* Loading the module (index.js lines 303-312 and 705-737).                *)
(***************************************************************************)
\* what require('knex/lib/dialects/sqlite3/index.js') gives: Knex's client
\* class, or it raises and Client_SQLite3 stays undefined
KnexClient == [k |-> "class", name |-> "Client_SQLite3"]
RequireKnex == {KnexClient, Undefined}

\* the Database class with its statics; driver is the same object
DatabaseClass ==
    [k |-> "class", name |-> "Database", extends |-> "none",
     OPEN_READONLY |-> 1, OPEN_READWRITE |-> 2, OPEN_CREATE |-> 4,
     Database |-> "Database"]

\* a fallback that exports an object holding the adapter
ModuleExports_wrapsFallback(client) ==
    IF client # Undefined
    THEN [k |-> "class", name |-> "BunSqliteClient", extends |-> client.name,
          BunSqliteClient |-> "BunSqliteClient", Database |-> "Database"]
    ELSE [k |-> "object", name |-> "none", extends |-> "none",
          Database |-> "Database"]

\* module.exports after the if statement at the end of the file
ModuleExports(client) ==
    IF client # Undefined
    THEN [k |-> "class", name |-> "BunSqliteClient", extends |-> client.name,
          BunSqliteClient |-> "BunSqliteClient", Database |-> "Database"]
    ELSE DatabaseClass

\* new BunSqliteClient(config): the fields the constructor sets after
\* super(config), and what _driver() of the instance returns
BunSqliteClient_constructor ==
    [k |-> "BunSqliteClient", dialect |-> "sqlite3", driverName |-> "bun:sqlite",
     _driver |-> DatabaseClass.name]

NotLoaded == [k |-> "none"]

(***************************************************************************)
(* The state of a process that uses the adapter.                           *)
(***************************************************************************)
VARIABLES
    Client_SQLite3,  \* the module's variable of that name
    exported,        \* module.exports, NotLoaded before the module is loaded
    dbs,      \* per connection: "absent" (not constructed), "open",
              \* "failed" (constructed, this.db undefined), "closed"
    tables,   \* per connection: the rows of its session's table
    sources,  \* per connection: for each row, the parameter the caller passed
    stmts,    \* per Statement object: NoStatement or its fields
    ticks,    \* the process.nextTick queue: [conn, callback, err]
    opened,   \* per connection: how often its open routine was invoked
    call      \* the latest call: what was called and what it did

dbVars == <<dbs, tables, sources, stmts, ticks, opened, call>>
loadVars == <<Client_SQLite3, exported>>
vars == <<nIn, nOut, nArg, Client_SQLite3, exported, dbs, tables, sources, stmts, ticks, opened, call>>

NoStatement == [db |-> "none", sql |-> "none", bound |-> Undefined, finalized |-> FALSE]

NotFunction(v) == ~IsFunction(v)

\* the routines among some arguments, in order
Routines(args) == SelectSeq(args, IsFunction)

\* the record of a call: the method, the object it was called on, its SQL,
\* its arguments after the SQL, the routines among them, and what it did (a
\* Done record)
Call(op, on, sql, args, done) ==
    [op |-> op, on |-> on, sql |-> sql, args |-> args,
     routines |-> Routines(args), done |-> done]

NoCall == Call("none", "none", "none", <<>>,
               Done("returned", "none", Undefined, <<>>, <<>>, 0, <<>>))

\* the state of a process that has loaded the module, Knex being installed
Init ==
    /\ nIn = NotCalled
    /\ nOut = NotCalled
    /\ nArg = NotCalled
    /\ Client_SQLite3 = KnexClient
    /\ exported = ModuleExports(KnexClient)
    /\ dbs = [c \in Conns |-> "absent"]
    /\ tables = [c \in Conns |-> <<>>]
    /\ sources = [c \in Conns |-> <<>>]
    /\ stmts = [s \in StmtIds |-> NoStatement]
    /\ ticks = <<>>
    /\ opened = [c \in Conns |-> 0]
    /\ call = NoCall

(***************************************************************************)
(* The arguments callers pass.                                             *)
(***************************************************************************)
\* parameter values of the calls on Database and Statement objects
OpVals == {Date2024, Undefined, Num(1), Num(2), BufferOf(<<1, 2>>)}
\* a routine, or none
Callbacks == {Undefined, Fn("ok"), Fn("raise")}
Functions == {Fn("ok"), Fn("raise")}
\* file names: one that opens, one in a directory that does not exist
FileNames == {":memory:", "/missing/db.sqlite"}

\* the params argument of a Database call on a statement: one value, or
\* an array with a value for each placeholder, or nothing
DbParams(sql) ==
    CASE Placeholders(sql) = 1 ->
             {Date2024, Num(1)} \cup {Array(<<v>>) : v \in OpVals}
      [] Placeholders(sql) = 2 ->
             {Array(<<Date2024, Num(1)>>), Array(<<Num(1), Date2024>>)}
      [] OTHER -> {Undefined}

\* (params, callback) of Database.run/get/all: params and an optional
\* callback, or the callback in the place of params
DbArgs(sql) ==
    {<<p, cb>> : p \in DbParams(sql), cb \in Callbacks}
        \cup {<<Fn("ok"), Undefined>>}

\* (params, callback) of Database.prepare
PrepareArgs(sql) ==
    {<<Undefined, cb>> : cb \in Callbacks}
        \cup {<<Fn("ok"), Undefined>>}
        \cup (IF sql = "INSERT" THEN {<<Array(<<Num(1)>>), Undefined>>} ELSE {})

\* (rowCallback, completeCallback) of each
EachCallbacks ==
    {<<Undefined, Undefined>>, <<Fn("ok"), Undefined>>, <<Fn("ok"), Fn("ok")>>,
     <<Undefined, Fn("ok")>>, <<Fn("raise"), Fn("ok")>>, <<Fn("ok"), Fn("raise")>>}

\* the rows the callers' sources record: the parameter bound to the one
\* placeholder of INSERT, as the caller passed it
FirstParam(params) ==
    IF IsFunction(params) THEN Undefined
    ELSE IF IsArray(params)
    THEN (IF Len(params.items) = 0 THEN Undefined
          ELSE IF IsArray(params.items[1])
          THEN (IF Len(params.items[1].items) = 0 THEN Undefined
                ELSE params.items[1].items[1])
          ELSE params.items[1])
    ELSE params

\* sources after a call that left the session with the given rows
Recorded(c, rows, params) ==
    IF Len(rows) > Len(tables[c])
    THEN [sources EXCEPT ![c] = Append(@, FirstParam(params))]
    ELSE sources

\* the SQL a caller runs with run, and with get/all/each
RunSql == {"INSERT", "UPDATE0", "BAD"}
QuerySql == {"SELECT", "ECHO", "BAD"}
ExecSql == {"UPDATE0", "BAD"}

\* a session's table takes a row only while it holds fewer than MaxRows
Room(c, sql) == sql = "INSERT" => Len(tables[c]) < MaxRows
Constructed(c) == dbs[c] # "absent"


(***************************************************************************)
(* Actions: one per method call, and one per turn of the nextTick queue.   *)
(***************************************************************************)
\* no call is in progress: the latest one has returned to its caller
Idle == call.op = "none"

\* the latest call's caller goes on: what the call did is known no longer
Return ==
    /\ ~Idle
    /\ call' = NoCall
    /\ UNCHANGED <<normVars, loadVars, dbs, tables, sources, stmts, ticks, opened>>

\* new Database(filename, mode, callback) for the connection c
Construct(c) ==
    /\ Idle
    /\ dbs[c] = "absent"
    /\ \E filename \in FileNames,
          a \in {<<Undefined, Undefined>>, <<Fn("ok"), Undefined>>,
                 <<Num(6), Undefined>>, <<Num(6), Fn("ok")>>} :
          LET r == Database_constructor(filename, a[1], a[2])
          IN  /\ dbs' = [dbs EXCEPT ![c] = r.state]
              /\ ticks' = ticks \o [i \in 1..Len(r.scheduled) |->
                                      [conn |-> c,
                                       callback |-> r.scheduled[i].callback,
                                       err |-> r.scheduled[i].err]]
              /\ call' = Call("new Database", c, "none", a, r.done)
    /\ UNCHANGED <<normVars, loadVars, tables, sources, stmts, opened>>

\* a later turn of the event loop runs the oldest function given to
\* process.nextTick: callback.call(this, err)
Tick ==
    /\ Idle
    /\ ticks # <<>>
    /\ LET t == Head(ticks)
           err == IF t.err = "none" THEN "null" ELSE t.err
       IN  /\ opened' = [opened EXCEPT ![t.conn] = @ + 1]
           /\ call' = Call("nextTick", t.conn, "none", <<t.callback>>,
                           Done("returned", "none", Undefined,
                                <<Invocation("callback", err, This, Undefined)>>,
                                <<>>, 0, tables[t.conn]))
    /\ ticks' = Tail(ticks)
    /\ UNCHANGED <<normVars, loadVars, dbs, tables, sources, stmts>>

\* the effect of a Database call that may have inserted a row
DbEffect(c, op, sql, a, r) ==
    /\ call' = Call(op, c, sql, a, r)
    /\ tables' = [tables EXCEPT ![c] = r.rows]
    /\ sources' = Recorded(c, r.rows, a[1])
    /\ UNCHANGED <<normVars, loadVars, dbs, stmts, ticks, opened>>

DbRun(c) ==
    /\ Idle
    /\ Constructed(c)
    /\ \E sql \in RunSql : \E a \in DbArgs(sql) :
          /\ Room(c, sql)
          /\ DbEffect(c, "Database.run", sql, a,
                      Database_run(dbs[c], tables[c], sql, a[1], a[2]))

DbGet(c) ==
    /\ Idle
    /\ Constructed(c)
    /\ \E sql \in QuerySql : \E a \in DbArgs(sql) :
          DbEffect(c, "Database.get", sql, a,
                   Database_get(dbs[c], tables[c], sql, a[1], a[2]))

DbAll(c) ==
    /\ Idle
    /\ Constructed(c)
    /\ \E sql \in QuerySql : \E a \in DbArgs(sql) :
          DbEffect(c, "Database.all", sql, a,
                   Database_all(dbs[c], tables[c], sql, a[1], a[2]))

\* (params, rowCallback, completeCallback) of Database.each, or the two
\* callbacks in the place of params and rowCallback
DbEachArgs(sql) ==
    {<<p, cbs[1], cbs[2]>> : p \in DbParams(sql), cbs \in EachCallbacks}
        \cup {<<Fn("ok"), Fn("ok"), Undefined>>}

DbEach(c) ==
    /\ Idle
    /\ Constructed(c)
    /\ \E sql \in QuerySql : \E a \in DbEachArgs(sql) :
          DbEffect(c, "Database.each", sql, a,
                   Database_each(dbs[c], tables[c], sql, a[1], a[2], a[3]))

DbExec(c) ==
    /\ Idle
    /\ Constructed(c)
    /\ \E sql \in ExecSql, cb \in Callbacks :
          DbEffect(c, "Database.exec", sql, <<cb>>,
                   Database_exec(dbs[c], tables[c], sql, cb))

\* Database.prepare: the Statement it returns is the object s
DbPrepare(c, s) ==
    /\ Idle
    /\ Constructed(c)
    /\ stmts[s] = NoStatement
    /\ \E sql \in SqlTexts : \E a \in PrepareArgs(sql) :
          LET r == Database_prepare(dbs[c], tables[c], sql, a[1], a[2], s)
          IN  /\ call' = Call("Database.prepare", c, sql, a, r)
              /\ stmts' = IF r.outcome = "returned" /\ r.ret.k = "Statement"
                          THEN [stmts EXCEPT ![s] = NewStatement(c, sql)]
                          ELSE stmts
    /\ UNCHANGED <<normVars, loadVars, dbs, tables, sources, ticks, opened>>

DbClose(c) ==
    /\ Idle
    /\ dbs[c] \in {"open", "failed"}
    /\ \E cb \in Callbacks :
          LET r == Database_close(dbs[c], tables[c], cb)
          IN  /\ call' = Call("Database.close", c, "none", <<cb>>, r)
              /\ dbs' = IF dbs[c] = "open" THEN [dbs EXCEPT ![c] = "closed"] ELSE dbs
    /\ UNCHANGED <<normVars, loadVars, tables, sources, stmts, ticks, opened>>

DbSerialize(c) ==
    /\ Idle
    /\ Constructed(c)
    /\ \E cb \in Callbacks :
          call' = Call("Database.serialize", c, "none", <<cb>>,
                       Database_serialize(tables[c], cb))
    /\ UNCHANGED <<normVars, loadVars, dbs, tables, sources, stmts, ticks, opened>>

DbParallelize(c) ==
    /\ Idle
    /\ Constructed(c)
    /\ \E cb \in Callbacks :
          call' = Call("Database.parallelize", c, "none", <<cb>>,
                       Database_parallelize(tables[c], cb))
    /\ UNCHANGED <<normVars, loadVars, dbs, tables, sources, stmts, ticks, opened>>


\* the parameters of Statement.bind/run/get/all/each, one argument each;
\* an array as single argument is the parameter list in one piece
StParams(sql) ==
    CASE Placeholders(sql) = 1 ->
             {<<>>} \cup {<<v>> : v \in OpVals}
                 \cup {<<Array(<<v>>)>> : v \in {Date2024, Num(1)}}
      [] Placeholders(sql) = 2 ->
             {<<>>, <<Date2024, Num(1)>>, <<Array(<<Date2024, Num(1)>>)>>}
      [] OTHER -> {<<>>}

\* the arguments of Statement.run/get/all: parameters, then maybe a callback
StArgs(sql) ==
    StParams(sql) \cup {Append(p, f) : p \in StParams(sql), f \in Functions}

\* the arguments of Statement.each: parameters, then up to two callbacks
StEachArgs(sql) ==
    {p \o Routines(<<cbs[1], cbs[2]>>) : p \in StParams(sql), cbs \in EachCallbacks}

\* a Statement object a caller holds and may still use
Usable(s) ==
    /\ stmts[s] # NoStatement
    /\ ~stmts[s].finalized
    /\ dbs[stmts[s].db] = "open"

\* the value of this inside a method of the Statement object s
Self(s) == [k |-> "Statement", id |-> s]

\* a run, get, all or each that uses this.boundParams up
BoundParamsAfter_usedUp(st, args) ==
    IF st.bound.k # "undefined" /\ SelectSeq(args, NotFunction) = <<>>
    THEN Undefined
    ELSE st.bound

\* this.boundParams after run, get, all or each with these arguments: no
\* method but bind assigns it; when there are no parameters among the
\* arguments, the array it holds is the one normalizeParams is called with
BoundParamsAfter(st, args) ==
    IF st.bound.k # "undefined" /\ SelectSeq(args, NotFunction) = <<>>
    THEN AfterNormalizeParams(st.bound)
    ELSE st.bound

\* the effect of a Statement call that may have inserted a row
StEffect(s, op, args, r) ==
    LET c == stmts[s].db
    IN  /\ call' = Call(op, s, stmts[s].sql, args, r)
        /\ tables' = [tables EXCEPT ![c] = r.rows]
        /\ sources' = Recorded(c, r.rows, Array(EffectiveParams(stmts[s], args)))
        /\ stmts' = [stmts EXCEPT ![s].bound = BoundParamsAfter(stmts[s], args)]
        /\ UNCHANGED <<normVars, loadVars, dbs, ticks, opened>>

StBind(s) ==
    /\ Idle
    /\ Usable(s)
    /\ \E params \in StParams(stmts[s].sql) :
          /\ stmts' = [stmts EXCEPT ![s] = Statement_bind(@, params)]
          /\ call' = Call("Statement.bind", s, stmts[s].sql, params,
                          Done("returned", "none", Self(s), <<>>, <<>>, 0,
                               tables[stmts[s].db]))
    /\ UNCHANGED <<normVars, loadVars, dbs, tables, sources, ticks, opened>>

StRun(s) ==
    /\ Idle
    /\ Usable(s)
    /\ stmts[s].sql \in RunSql
    /\ Room(stmts[s].db, stmts[s].sql)
    /\ \E args \in StArgs(stmts[s].sql) :
          StEffect(s, "Statement.run", args,
                   Statement_run(stmts[s], Self(s), tables[stmts[s].db], args))

StGet(s) ==
    /\ Idle
    /\ Usable(s)
    /\ stmts[s].sql \in QuerySql
    /\ \E args \in StArgs(stmts[s].sql) :
          StEffect(s, "Statement.get", args,
                   Statement_get(stmts[s], tables[stmts[s].db], args))

StAll(s) ==
    /\ Idle
    /\ Usable(s)
    /\ stmts[s].sql \in QuerySql
    /\ \E args \in StArgs(stmts[s].sql) :
          StEffect(s, "Statement.all", args,
                   Statement_all(stmts[s], tables[stmts[s].db], args))

StEach(s) ==
    /\ Idle
    /\ Usable(s)
    /\ stmts[s].sql \in QuerySql
    /\ \E args \in StEachArgs(stmts[s].sql) :
          StEffect(s, "Statement.each", args,
                   Statement_each(stmts[s], Self(s), tables[stmts[s].db], args))

StReset(s) ==
    /\ Idle
    /\ Usable(s)
    /\ \E cb \in Callbacks :
          call' = Call("Statement.reset", s, stmts[s].sql, <<cb>>,
                       Statement_reset(Self(s), tables[stmts[s].db], cb))
    /\ UNCHANGED <<normVars, loadVars, dbs, tables, sources, stmts, ticks, opened>>

StFinalize(s) ==
    /\ Idle
    /\ Usable(s)
    /\ \E cb \in Callbacks :
          call' = Call("Statement.finalize", s, stmts[s].sql, <<cb>>,
                       Statement_finalize(Self(s), tables[stmts[s].db], cb))
    /\ stmts' = [stmts EXCEPT ![s].finalized = TRUE]
    /\ UNCHANGED <<normVars, loadVars, dbs, tables, sources, ticks, opened>>

\* a direct call of normalizeParams, the one the run is about
Normalize ==
    /\ nIn = NotCalled
    /\ \E p \in NormInputs :
          /\ nIn' = p
          /\ nOut' = normalizeParams(p)
          /\ nArg' = AfterNormalizeParams(p)
    /\ UNCHANGED <<loadVars, dbVars>>

\* the connections the callers of Spec use
SpecConns == {"A"}
\* the Statement objects they hold
SpecStmts == {"s1"}

Next ==
    \/ \E c \in SpecConns : Construct(c)
    \/ Tick
    \/ \E c \in SpecConns : DbRun(c)
    \/ \E c \in SpecConns : DbGet(c)
    \/ \E c \in SpecConns : DbAll(c)
    \/ \E c \in SpecConns : DbEach(c)
    \/ \E c \in SpecConns : DbExec(c)
    \/ \E c \in SpecConns : \E s \in SpecStmts : DbPrepare(c, s)
    \/ \E c \in SpecConns : DbClose(c)
    \/ \E c \in SpecConns : DbSerialize(c)
    \/ \E c \in SpecConns : DbParallelize(c)
    \/ \E s \in SpecStmts : StBind(s)
    \/ \E s \in SpecStmts : StRun(s)
    \/ \E s \in SpecStmts : StGet(s)
    \/ \E s \in SpecStmts : StAll(s)
    \/ \E s \in SpecStmts : StEach(s)
    \/ \E s \in SpecStmts : StReset(s)
    \/ \E s \in SpecStmts : StFinalize(s)
    \/ Return

Spec == Init /\ [][Next]_vars

\* normalizeParams on its own, over NormInputs
SpecNorm == Init /\ [][Normalize]_vars

(***************************************************************************)
(* A process from before it loads the module: require runs the module's    *)
(* top level once; afterwards the process uses what the module exports.    *)
(***************************************************************************)
InitLoad ==
    /\ nIn = NotCalled
    /\ nOut = NotCalled
    /\ nArg = NotCalled
    /\ Client_SQLite3 = NotLoaded
    /\ exported = NotLoaded
    /\ dbs = [c \in Conns |-> "absent"]
    /\ tables = [c \in Conns |-> <<>>]
    /\ sources = [c \in Conns |-> <<>>]
    /\ stmts = [s \in StmtIds |-> NoStatement]
    /\ ticks = <<>>
    /\ opened = [c \in Conns |-> 0]
    /\ call = NoCall

Loaded == exported # NotLoaded

\* require('knex-bun-sqlite') for the first time: the probe for Knex's
\* client, then the export
Load ==
    /\ ~Loaded
    /\ \E client \in RequireKnex :
          /\ Client_SQLite3' = client
          /\ exported' = ModuleExports(client)
    /\ UNCHANGED <<normVars, dbVars>>

\* new (require('knex-bun-sqlite'))(config) where the export is the client
NewClient ==
    /\ Idle
    /\ Loaded
    /\ exported.name = "BunSqliteClient"
    /\ call' = Call("new BunSqliteClient", "none", "none", <<>>,
                    Done("returned", "none", BunSqliteClient_constructor,
                         <<>>, <<>>, 0, <<>>))
    /\ UNCHANGED <<normVars, loadVars, dbs, tables, sources, stmts, ticks, opened>>

NextLoad ==
    \/ Load
    \/ NewClient
    \/ Loaded /\ \E c \in Conns : Construct(c)
    \/ Loaded /\ Tick
    \/ \E c \in Conns : DbExec(c)
    \/ \E c \in Conns : DbClose(c)
    \/ \E c \in Conns : DbSerialize(c)
    \/ Return

SpecLoad == InitLoad /\ [][NextLoad]_vars

(***************************************************************************)
(* Two connections side by side, each with a Statement object of its own   *)
(* or both: the callers insert, bind, run, finalize and close, with SQL    *)
(* that fails among it.                                                     *)
(***************************************************************************)
TwoConstruct(c) ==
    /\ Construct(c)
    /\ call'.args = <<Undefined, Undefined>>

TwoRun(c) ==
    /\ DbRun(c)
    /\ call'.sql \in {"INSERT", "BAD"}
    /\ call'.args = <<Num(1), Undefined>>

TwoPrepare(c, s) ==
    /\ DbPrepare(c, s)
    /\ call'.sql = "INSERT"
    /\ call'.args = <<Undefined, Undefined>>

TwoBind(s) ==
    /\ StBind(s)
    /\ call'.args = <<Num(2)>>

TwoStRun(s) ==
    /\ StRun(s)
    /\ call'.args = <<>>

TwoFinalize(s) ==
    /\ StFinalize(s)
    /\ call'.args = <<Undefined>>

TwoClose(c) ==
    /\ DbClose(c)
    /\ call'.args = <<Undefined>>

NextTwo ==
    \/ \E c \in Conns : TwoConstruct(c)
    \/ \E c \in Conns : TwoRun(c)
    \/ \E c \in Conns : \E s \in StmtIds : TwoPrepare(c, s)
    \/ \E s \in StmtIds : TwoBind(s)
    \/ \E s \in StmtIds : TwoStRun(s)
    \/ \E s \in StmtIds : TwoFinalize(s)
    \/ \E c \in Conns : TwoClose(c)
    \/ Return

SpecTwo == Init /\ [][NextTwo]_vars

(***************************************************************************)
(* Properties.  The latest call is in call: call.done.engine is what the   *)
(* engine was handed, call.done.inv the routine invocations in order.      *)
(***************************************************************************)
\* the kinds the engine's bind/execute primitive is meant to be handed
EngineKinds == {"string", "number", "boolean", "null", "bigint", "Uint8Array"}

\* the calls that take parameters
ParamOps == {"Database.run", "Database.get", "Database.all", "Database.each",
             "Statement.run", "Statement.get", "Statement.all", "Statement.each"}

\* the calls that take a completion routine and reach the engine
RoutineOps == ParamOps \cup {"Database.exec", "Database.prepare", "Database.close",
                             "Statement.finalize"}

\* the engine calls of the latest call that were handed values
Handed == {i \in DOMAIN call.done.engine : call.done.engine[i].prim \in {"run", "get", "all"}}

\* the engine raised during the latest call, and what it raised
EngineFailed == \E i \in DOMAIN call.done.engine : call.done.engine[i].err \in EngineErrors
EngineError ==
    call.done.engine[CHOOSE i \in DOMAIN call.done.engine :
                         call.done.engine[i].err \in EngineErrors].err
\* the engine was called and raised nothing
EngineSucceeded ==
    /\ call.done.engine # <<>>
    /\ \A i \in DOMAIN call.done.engine : call.done.engine[i].err = "none"
\* no routine the latest call was given raises when it is invoked
RoutinesReturn == \A i \in DOMAIN call.routines : ~Raises(call.routines[i])

\* '2024-01-15 10:30:00.000', what normalizeParams makes of Date2024
Text2024 ==
    Text(<<"2", "0", "2", "4", "-", "0", "1", "-", "1", "5", " ",
           "1", "0", ":", "3", "0", ":", "0", "0", ".", "0", "0", "0">>)

\* C1: after any sequence of Database.run/get/all/each and Statement.bind/
\* run/get/all/each calls, every value handed to the engine's execute
\* primitive is text, a number, a boolean, null, a large integer or a byte
\* array (no Date, no undefined), and the call's parameters went through
\* normalizeParams exactly once.
C1_EngineHandedNormalizedValues ==
    call.op \in ParamOps =>
        /\ call.done.norm = 1
        /\ \A i \in Handed : \A j \in DOMAIN call.done.engine[i].args :
              call.done.engine[i].args[j].k \in EngineKinds

\* Statement.run([date]): the engine is handed an array that holds a Date
C1_DateHandedToEngine ==
    /\ call.op = "Statement.run"
    /\ \E i \in Handed : call.done.engine[i].args = <<Array(<<Date2024>>)>>

\* C2: for every Date d (at any position of the list),
\* normalizeParams([d])[0] is the integer d.getTime(), not text and not a
\* Date.
C2_DateBecomesEpochInteger ==
    IsArray(nIn) =>
        \A i \in DOMAIN nIn.items :
            nIn.items[i].k = "Date" =>
                /\ nOut.k = "Array"
                /\ nOut.items[i] = getTime(nIn.items[i])

\* normalizeParams([new Date('2024-01-15T10:30:00.000Z')]) is text
C2_DateBecomesText ==
    /\ nIn = Array(<<Date2024>>)
    /\ nOut = Array(<<Text2024>>)

\* C3: for every Date d, new Date(normalizeParams([d])[0]) is the instant
\* d.getTime() again, in whatever time zone the process runs, and for two
\* Dates d1 <= d2 the normalized values compare in the same order.
C3_DateRoundTripsInOrder ==
    (IsArray(nIn) /\ \A i \in DOMAIN nIn.items : nIn.items[i].k = "Date") =>
        /\ nOut.k = "Array"
        /\ \A i \in DOMAIN nIn.items : \A tz \in TimeZones :
              getTime(NewDate(nOut.items[i], tz)) = getTime(nIn.items[i])
        /\ \A i, j \in DOMAIN nIn.items :
              ValueLeq(getTime(nIn.items[i]), getTime(nIn.items[j]))
                  => ValueLeq(nOut.items[i], nOut.items[j])

\* a Date of the year 10000 after one of 2024: the normalized values are
\* in the opposite order, and in a zone west of UTC 2024 reads back late
C3_DatesOutOfOrder ==
    /\ nIn = Array(<<Date2024, Date10000>>)
    /\ nOut.k = "Array"
    /\ ~ValueLeq(nOut.items[1], nOut.items[2])
    /\ getTime(NewDate(nOut.items[1], -300)) = Number(19737, 37800000 + 300 * 60000)

\* the rows the latest call read, if it was a get or all of SELECT
RowsRead ==
    IF call.sql # "SELECT" \/ call.done.ret = Undefined THEN <<>>
    ELSE IF call.op \in {"Database.get", "Statement.get"} THEN <<call.done.ret>>
    ELSE IF call.op \in {"Database.all", "Statement.all"} THEN call.done.ret.items
    ELSE <<>>

\* the connection the latest call worked on
CallConn == IF call.on \in Conns THEN call.on ELSE stmts[call.on].db

\* C4: after a row whose column value is a Date d was inserted through
\* run, get and all read that column back as the number d.getTime().
C4_DateReadBackAsEpochNumber ==
    \A i \in DOMAIN RowsRead :
        sources[CallConn][i].k = "Date" =>
            RowsRead[i].x = getTime(sources[CallConn][i])

\* get reads the row inserted with Date2024 back as text
C4_DateReadBackAsText ==
    /\ call.op = "Database.get"
    /\ RowsRead # <<>>
    /\ sources[CallConn][1] = Date2024
    /\ RowsRead[1].x = Text2024

\* C5: in the list normalizeParams returns for a parameter list, an
\* undefined element is null at the same position and an element that is
\* text, a number, a boolean, null, a large integer or a byte array is
\* itself at the same position; the list's length is that of the input.
C5_UndefinedToNullOthersUnchanged ==
    (IsArray(nIn) /\ nOut.k = "Array") =>
        /\ Len(nOut.items) = Len(nIn.items)
        /\ \A i \in DOMAIN nIn.items :
              /\ nIn.items[i].k = "undefined" => nOut.items[i] = Null
              /\ nIn.items[i].k \in EngineKinds => nOut.items[i] = nIn.items[i]

\* [undefined, 1] has become [null, 1]
C5_UndefinedBecameNull ==
    /\ nIn = Array(<<Undefined, Num(1)>>)
    /\ nOut = Array(<<Null, Num(1)>>)

\* C6: for every Buffer b of a parameter list the normalized element is a
\* Uint8Array of b's length and b's bytes, and what the engine stores and
\* returns for it is that byte sequence.
C6_BufferToSameBytes ==
    (IsArray(nIn) /\ nOut.k = "Array") =>
        \A i \in DOMAIN nIn.items :
            IsBuffer(nIn.items[i]) =>
                /\ nOut.items[i].k = "Uint8Array"
                /\ Len(nOut.items[i].bytes) = Len(nIn.items[i].bytes)
                /\ nOut.items[i].bytes = nIn.items[i].bytes
                /\ Stored(nOut.items[i]).bytes = nIn.items[i].bytes

\* a Buffer of two bytes has become a Uint8Array of these two bytes
C6_BufferBecameUint8Array ==
    /\ nIn = Array(<<BufferOf(<<1, 2>>)>>)
    /\ nOut = Array(<<Uint8Array(<<1, 2>>)>>)

\* C7: normalizeParams never raises and always returns a sequence: the
\* empty one for undefined, one of one element for another value that is
\* not a sequence, one of the same length for a sequence.
C7_NormalizeParamsTotal ==
    nIn # NotCalled =>
        /\ nOut.k = "Array"
        /\ nIn.k = "undefined" => nOut.items = <<>>
        /\ (~IsArray(nIn) /\ nIn.k # "undefined") => Len(nOut.items) = 1
        /\ IsArray(nIn) => Len(nOut.items) = Len(nIn.items)

\* normalizeParams([new Date(NaN)]) raises RangeError
C7_InvalidDateRaises ==
    /\ nIn = Array(<<InvalidDate>>)
    /\ nOut = Thrown("RangeError")

\* C8: a call of Database.run/get/all/each/exec/prepare/close or
\* Statement.run/get/all/each/finalize that was given a routine: when the
\* engine fails, the engine's error is not raised out of the call and is
\* the first argument of the first routine invocation, and if no routine
\* raises the call returns and each routine given is invoked once, with the
\* error; when the engine succeeds the first invocation's first argument is
\* null, and so is every invocation's if no routine raises.
C8_ErrorsRoutedToRoutine ==
    (call.op \in RoutineOps /\ call.routines # <<>>) =>
        /\ EngineFailed =>
              /\ call.done.err # EngineError
              /\ call.done.inv # <<>>
              /\ call.done.inv[1].err = EngineError
              /\ RoutinesReturn =>
                    /\ call.done.outcome = "returned"
                    /\ Len(call.done.inv) = Len(call.routines)
                    /\ \A i \in DOMAIN call.done.inv : call.done.inv[i].err = EngineError
        /\ EngineSucceeded =>
              /\ call.done.inv # <<>> => call.done.inv[1].err = "null"
              /\ RoutinesReturn =>
                    /\ call.done.outcome = "returned"
                    /\ \A i \in DOMAIN call.done.inv : call.done.inv[i].err = "null"

\* run of text that is not SQL, with a routine: the routine got the error
C8_PrepareErrorDelivered ==
    /\ call.op = "Database.run"
    /\ call.routines = <<Fn("ok")>>
    /\ EngineFailed
    /\ call.done.outcome = "returned"
    /\ call.done.inv = <<Invocation("callback", "PrepareError", This, Undefined)>>

\* C9: a call of Database.run/get/all/each/exec/prepare/close or
\* Statement.run/get/all/each/finalize that was given no routine raises
\* the engine's error to its caller when the engine fails: it does not
\* return normally.
C9_NoRoutineReraises ==
    (call.op \in RoutineOps /\ call.routines = <<>> /\ EngineFailed) =>
        /\ call.done.outcome = "threw"
        /\ call.done.err = EngineError

\* each of text that is not SQL, with no routine, has returned normally
C9_EachSwallowsError ==
    /\ call.op = "Database.each"
    /\ call.routines = <<>>
    /\ EngineFailed
    /\ call.done.outcome = "returned"

\* the functions on the nextTick queue that belong to the connection c
Pending(c) == {i \in DOMAIN ticks : ticks[i].conn = c}

\* C10: a Database constructed with a routine (second or third argument):
\* the constructor returns without raising and without having invoked the
\* routine, which is then on the nextTick queue once, with no error if the
\* open succeeded and with the open's error if it failed; the routine is
\* invoked on a later turn, with null or that error; and it is never on the
\* queue or invoked more than once in all.
C10_OpenRoutineDeferredOnce ==
    /\ (call.op = "new Database" /\ call.routines # <<>>) =>
          /\ call.done.outcome = "returned"
          /\ call.done.inv = <<>>
          /\ opened[call.on] = 0
          /\ Cardinality(Pending(call.on)) = 1
          /\ \A i \in Pending(call.on) :
                /\ ticks[i].callback = call.routines[1]
                /\ ticks[i].err = call.done.engine[1].err
                /\ (ticks[i].err = "none") = (dbs[call.on] = "open")
    /\ call.op = "nextTick" =>
          /\ opened[call.on] = 1
          /\ Pending(call.on) = {}
          /\ Len(call.done.inv) = 1
          /\ (call.done.inv[1].err = "null") = (dbs[call.on] # "failed")
          /\ (call.done.inv[1].err = "OpenError") = (dbs[call.on] = "failed")
    /\ \A c \in Conns : opened[c] + Cardinality(Pending(c)) <= 1
    /\ \A c \in Conns : dbs[c] = "failed" => opened[c] + Cardinality(Pending(c)) = 1

\* the open of a missing file failed, and a later turn has told the routine
C10_OpenErrorDeliveredLater ==
    /\ call.op = "nextTick"
    /\ dbs[call.on] = "failed"
    /\ opened[call.on] = 1
    /\ call.done.inv[1].err = "OpenError"

\* C11: constructing a Database whose engine open fails raises to the
\* caller if and only if no routine was given; with a routine the
\* constructor returns and the open's error is what the routine is queued
\* with and, on the later turn, invoked with.
C11_OpenFailureThrownOrDelivered ==
    /\ (call.op = "new Database" /\ EngineFailed) =>
          /\ (call.done.outcome = "threw") = (call.routines = <<>>)
          /\ call.routines = <<>> =>
                /\ call.done.err = EngineError
                /\ Pending(call.on) = {}
          /\ call.routines # <<>> =>
                /\ call.done.inv = <<>>
                /\ \E i \in Pending(call.on) : ticks[i].err = EngineError
    /\ (call.op = "nextTick" /\ dbs[call.on] = "failed") =>
          call.done.inv = <<Invocation("callback", "OpenError", This, Undefined)>>

\* the open of a missing file, with no routine, has raised OpenError
C11_OpenFailureThrown ==
    /\ call.op = "new Database"
    /\ call.routines = <<>>
    /\ call.done.outcome = "threw"
    /\ call.done.err = "OpenError"

\* the calls that execute with run
RunOps == {"Database.run", "Statement.run"}

\* C12: after run (Database.run or Statement.run) of an INSERT of one row
\* the routine is invoked with null and with a receiver whose lastID is the
\* number that is the inserted row's id and whose changes is 1.
C12_InsertContext ==
    (call.op \in RunOps /\ call.sql = "INSERT" /\ EngineSucceeded
        /\ call.routines # <<>>) =>
        /\ call.done.inv[1].err = "null"
        /\ call.done.inv[1].this.k = "context"
        /\ call.done.inv[1].this.lastID
              = Num(tables[CallConn][Len(tables[CallConn])].id)
        /\ call.done.inv[1].this.changes = Num(1)

\* the second row was inserted by Statement.run: lastID is 2, changes 1
C12_SecondInsertReported ==
    /\ call.op = "Statement.run"
    /\ call.sql = "INSERT"
    /\ Len(tables[CallConn]) = 2
    /\ call.done.inv = <<Invocation("callback", "null",
                                    [k |-> "context", lastID |-> Num(2),
                                     changes |-> Num(1)], Undefined)>>

\* C13: after run of an UPDATE whose predicate matches no row the
\* receiver of the routine has changes 0 and lastID undefined, whatever was
\* run before on the connection, earlier INSERTs included.
C13_UpdateOfNothingContext ==
    (call.op \in RunOps /\ call.sql = "UPDATE0" /\ EngineSucceeded
        /\ call.routines # <<>>) =>
        /\ call.done.inv[1].err = "null"
        /\ call.done.inv[1].this.changes = Num(0)
        /\ call.done.inv[1].this.lastID = Undefined

\* after one INSERT the UPDATE of no row reports lastID 1
C13_StaleLastID ==
    /\ call.op = "Database.run"
    /\ call.sql = "UPDATE0"
    /\ Len(tables[CallConn]) = 1
    /\ call.routines # <<>>
    /\ call.done.inv[1].this = [k |-> "context", lastID |-> Num(1),
                                changes |-> Num(0)]

\* the one-shot calls, which prepare a statement of their own
OneShotOps == {"Database.run", "Database.get", "Database.all", "Database.each"}

\* C14: every one-shot Database.run/get/all/each call that prepared a
\* statement has released it (stmt.finalize()) when it returns or raises,
\* after success, binding failure and execution failure alike.
C14_OneShotStatementReleased ==
    call.op \in OneShotOps =>
        \A i \in DOMAIN call.done.engine :
            (call.done.engine[i].prim = "prepare" /\ call.done.engine[i].err = "none")
                => \E j \in DOMAIN call.done.engine :
                      /\ j > i
                      /\ call.done.engine[j] = EngineCall("finalize", <<>>, "none")

\* run of an INSERT of undefined: prepared, failed to execute, not released
C14_StatementLeftUnreleased ==
    /\ call.op = "Database.run"
    /\ Len(call.done.engine) = 2
    /\ call.done.engine[1] = EngineCall("prepare", <<>>, "none")
    /\ call.done.engine[2] = EngineCall("run", <<Null>>, "ExecError")

EachOps == {"Database.each", "Statement.each"}

\* the row routine and the done routine the latest call, an each, was given
RowRoutine ==
    IF call.op = "Database.each"
    THEN (IF IsFunction(call.args[1]) THEN call.args[1] ELSE call.args[2])
    ELSE (IF Len(call.routines) > 0 THEN call.routines[1] ELSE Undefined)
DoneRoutine ==
    IF call.op = "Database.each"
    THEN (IF IsFunction(call.args[1]) THEN call.args[2] ELSE call.args[3])
    ELSE (IF Len(call.routines) > 1 THEN call.routines[Len(call.routines)]
          ELSE Undefined)

\* the parameters among the arguments of the latest call on a Statement
NotRoutine(v) == ~IsFunction(v)
ExplicitParams == SelectSeq(call.args, NotRoutine)

\* what all returns when called, without routine, in the place of the
\* latest call, an each (which leaves the session's rows as they are)
EquivalentAll ==
    IF call.op = "Database.each"
    THEN Database_all(dbs[call.on], tables[call.on], call.sql,
                      IF IsFunction(call.args[1]) THEN Undefined ELSE call.args[1],
                      Undefined)
    ELSE Statement_all(stmts[call.on], tables[stmts[call.on].db], ExplicitParams)

\* the invocations of the latest call's row routine, in order
RowInvocations ==
    LET isRow(v) == v.fn = "rowCallback"
    IN  SelectSeq(call.done.inv, isRow)

C16_EachFailureToBothRoutines ==
    (call.op \in EachOps /\ EngineFailed) =>
        /\ \A i \in DOMAIN call.done.inv : call.done.inv[i].err # "null"
        /\ RoutinesReturn =>
              call.done.inv =
                  (IF Given(RowRoutine)
                   THEN <<Invocation("rowCallback", EngineError, This, Undefined)>>
                   ELSE <<>>)
                  \o (IF Given(DoneRoutine)
                      THEN <<Invocation("completeCallback", EngineError, This, Undefined)>>
                      ELSE <<>>)

\* Statement.each that failed to bind: both routines were told
C16_BindErrorToBothRoutines ==
    /\ call.op = "Statement.each"
    /\ call.done.inv = <<Invocation("rowCallback", "BindError", This, Undefined),
                         Invocation("completeCallback", "BindError", This, Undefined)>>

\* the calls on a Statement that take parameters
StatementParamOps == {"Statement.run", "Statement.get", "Statement.all",
                      "Statement.each"}

\* the parameters the spec has the latest call, on a Statement, execute
\* with: its explicit ones, else those bind stored last, else none
ResolvedParams ==
    IF ExplicitParams # <<>> THEN ExplicitParams
    ELSE IF stmts[call.on].bound # Undefined THEN stmts[call.on].bound.items
    ELSE <<>>

\* C17: Statement.run/get/all/each execute with the explicit arguments of
\* the call when any are given, otherwise with the list bind stored last,
\* otherwise with the empty list (normalized, in one engine call); a
\* trailing function is the routine: it is never handed to the engine, and
\* run/get/all invoke it.
C17_StatementEffectiveParams ==
    call.op \in StatementParamOps =>
        /\ Len(call.done.engine) = 1
        /\ call.done.engine[1].args = normalizeParams(Array(ResolvedParams)).items
        /\ \A j \in DOMAIN call.done.engine[1].args :
              ~IsFunction(call.done.engine[1].args[j])
        /\ (call.op # "Statement.each" /\ call.routines # <<>>) =>
              /\ call.done.inv # <<>>
              /\ call.done.inv[1].fn = "callback"

\* run() with a routine only, after bind(1): the engine was handed 1
C17_BoundParamsUsed ==
    /\ call.op = "Statement.run"
    /\ call.args = <<Fn("ok")>>
    /\ stmts[call.on].bound = Array(<<Num(1)>>)
    /\ call.done.engine = <<EngineCall("run", <<Num(1)>>, "none")>>

\* C18: Database.prepare(sql, params) with params given returns a
\* Statement whose stored parameters are what prepare(sql) followed by
\* bind(params) leaves, so that a following run/get/all/each without
\* parameters executes with them.
C18_PrepareBindsParams ==
    (call.op = "Database.prepare" /\ call.done.outcome = "returned"
        /\ call.done.ret # Undefined
        /\ ~IsFunction(call.args[1]) /\ call.args[1] # Undefined) =>
        stmts[call.done.ret.id].bound
            = Statement_bind(NewStatement(call.on, call.sql), <<call.args[1]>>).bound

\* prepare of the INSERT with [1]: the Statement has no stored parameters
C18_PrepareDropsParams ==
    /\ call.op = "Database.prepare"
    /\ call.args[1] = Array(<<Num(1)>>)
    /\ call.done.outcome = "returned"
    /\ stmts[call.done.ret.id] = NewStatement(call.on, "INSERT")

\* C19: a call of Statement.run/get/all/each makes one engine call, on the
\* Statement's handle: no prepare and no finalize, and the Statement object
\* is left as it was; run() of an INSERT after bind(v) appends one row
\* holding v to the session's rows and leaves the earlier rows as they were
\* (so bind(1).run() and bind(2).run() insert 1 and 2, in that order).
C19_StatementReuse ==
    [][(call.op = "none" /\ call'.op \in StatementParamOps) =>
          /\ stmts' = stmts
          /\ Len(call'.done.engine) = 1
          /\ call'.done.engine[1].prim \in {"run", "get", "all"}
          /\ (call'.op = "Statement.run" /\ call'.sql = "INSERT"
                 /\ SelectSeq(call'.args, NotRoutine) = <<>>
                 /\ stmts[call'.on].bound # Undefined
                 /\ Len(stmts[call'.on].bound.items) = 1
                 /\ stmts[call'.on].bound.items[1].k = "number") =>
                tables'[stmts[call'.on].db]
                    = Append(tables[stmts[call'.on].db],
                             [id |-> Len(tables[stmts[call'.on].db]) + 1,
                              x |-> stmts[call'.on].bound.items[1]])]_vars

\* after bind(1).run() and bind(2).run() the rows hold 1 and 2
C19_TwoRowsFromOneStatement ==
    /\ call.op = "Statement.run"
    /\ call.args = <<>>
    /\ stmts[call.on].bound = Array(<<Num(2)>>)
    /\ ~stmts[call.on].finalized
    /\ tables[stmts[call.on].db] = <<[id |-> 1, x |-> Num(1)], [id |-> 2, x |-> Num(2)]>>
    /\ sources[stmts[call.on].db] = <<Num(1), Num(2)>>

\* the parameter list the latest call was given as a single value or as one
\* ordered sequence: <<TRUE, the list>>, or <<FALSE, <<>>>> if it was given
\* none or in another way
GivenList ==
    LET p == IF call.op \in StatementParamOps
             THEN (IF Len(ExplicitParams) = 1 THEN ExplicitParams[1] ELSE Undefined)
             ELSE (IF IsFunction(call.args[1]) THEN Undefined ELSE call.args[1])
    IN  IF p = Undefined THEN <<FALSE, <<>>>>
        ELSE IF IsArray(p) THEN <<TRUE, p.items>>
        ELSE <<TRUE, <<p>>>>

\* C20: run/get/all/each of a Database and of a Statement, given the
\* parameter list as a sequence [a, b], bind a to the first placeholder and
\* b to the second, and given a single value v bind v to the first: the
\* engine's binding list is the list given, each element normalized.
C20_SingleValueOrSequenceBound ==
    (call.op \in ParamOps /\ GivenList[1]) =>
        \A i \in Handed :
            EngineBindings(call.done.engine[i].args)
                = [j \in DOMAIN GivenList[2] |-> normalizeParam(GivenList[2][j])]

\* Statement.get([date, 1]): the engine's binding list holds the Date
C20_SequenceOnStatementNotNormalized ==
    /\ call.op = "Statement.get"
    /\ call.args = <<Array(<<Date2024, Num(1)>>)>>
    /\ call.done.engine = <<EngineCall("get", <<Array(<<Date2024, Num(1)>>)>>, "BindError")>>

\* C21: Database.serialize(cb) and Database.parallelize(cb) invoke a cb
\* that was given exactly once, before they return, and make no engine
\* call; given no routine they invoke nothing and return without raising.
C21_SerializeInvokesRoutineOnce ==
    call.op \in {"Database.serialize", "Database.parallelize"} =>
        /\ call.done.engine = <<>>
        /\ call.done.rows = tables[call.on]
        /\ call.routines # <<>> =>
              /\ Len(call.done.inv) = 1
              /\ call.done.inv[1].fn = "callback"
        /\ call.routines = <<>> =>
              /\ call.done.inv = <<>>
              /\ call.done.outcome = "returned"

\* parallelize with a routine has invoked it and returned
C21_ParallelizeInvoked ==
    /\ call.op = "Database.parallelize"
    /\ call.routines = <<Fn("ok")>>
    /\ Len(call.done.inv) = 1
    /\ call.done.outcome = "returned"

\* the calls that take one completion routine
OneRoutineOps == {"Database.run", "Database.get", "Database.all", "Database.exec",
                  "Database.prepare", "Database.close", "Statement.run",
                  "Statement.get", "Statement.all", "Statement.finalize"}

\* C22: a routine given to run/get/all/exec/prepare/close/finalize (of a
\* Database or a Statement) is invoked exactly once in the call, whatever
\* the engine did, also when the routine's body raises while it is invoked.
C22_RoutineInvokedOnce ==
    (call.op \in OneRoutineOps /\ call.routines # <<>>) =>
        Len(call.done.inv) = 1

\* run with a routine that raises: invoked with null, then with its own error
C22_RaisingRoutineInvokedTwice ==
    /\ call.op = "Database.run"
    /\ call.routines = <<Fn("raise")>>
    /\ Len(call.done.inv) = 2
    /\ call.done.inv[1].err = "null"
    /\ call.done.inv[2].err = "CallbackError"

\* the calls that return records
QueryOps == {"Database.get", "Database.all", "Statement.get", "Statement.all"}

\* what the engine answers the execute call of the latest call, a query
EngineAnswer ==
    LET i == CHOOSE j \in Handed : TRUE
    IN  EngineExecute(call.done.engine[i].prim, call.sql,
                      call.done.engine[i].args, tables[CallConn]).result

\* C23: on success get returns at most one record (the first the engine
\* finds, or undefined) and all returns the engine's records in the engine's
\* order, as the engine answered them; a routine given gets null and, as
\* second argument, the value the call returns.  Routines that raise aside.
C23_QueryReturnsEngineRecords ==
    (call.op \in QueryOps /\ EngineSucceeded /\ RoutinesReturn) =>
        /\ call.done.outcome = "returned"
        /\ call.done.ret = EngineAnswer
        /\ (call.sql = "SELECT" /\ call.op \in {"Database.get", "Statement.get"}) =>
              call.done.ret = IF tables[CallConn] = <<>> THEN Undefined
                              ELSE tables[CallConn][1]
        /\ (call.sql = "SELECT" /\ call.op \in {"Database.all", "Statement.all"}) =>
              call.done.ret = Array(tables[CallConn])
        /\ call.routines # <<>> =>
              call.done.inv = <<Invocation("callback", "null", This, call.done.ret)>>

\* all over two rows, with a routine: both got the two rows in order
C23_AllReturnsAndDelivers ==
    /\ call.op = "Database.all"
    /\ call.sql = "SELECT"
    /\ Len(tables[call.on]) = 2
    /\ call.done.ret = Array(tables[call.on])
    /\ call.done.inv = <<Invocation("callback", "null", This, Array(tables[call.on]))>>

\* the engine calls of the latest call that execute a statement
Executions ==
    {i \in DOMAIN call.done.engine :
        call.done.engine[i].prim \in {"run", "get", "all", "exec"}}

\* C26: a call of run/get/all/each/exec executes in the engine at most
\* once, whether that succeeds or fails; an engine call that failed is the
\* call's last engine call.
C26_SingleAttempt ==
    call.op \in ParamOps \cup {"Database.exec"} =>
        /\ Cardinality(Executions) <= 1
        /\ \A i \in DOMAIN call.done.engine :
              call.done.engine[i].err # "none" => i = Len(call.done.engine)

\* run failed to execute: one prepare, one run, nothing after
C26_FailedOnce ==
    /\ call.op = "Database.run"
    /\ call.routines # <<>>
    /\ Len(call.done.engine) = 2
    /\ call.done.engine[2].prim = "run"
    /\ call.done.engine[2].err = "ExecError"
    /\ call.done.inv[1].err = "ExecError"

\* the calls, other than each, that invoke a routine given to them
ImmediateOps == OneRoutineOps \cup {"Statement.reset", "Database.serialize",
                                    "Database.parallelize"}

\* C25: a call of run/get/all/each/exec/prepare/close/finalize/reset/
\* serialize/parallelize puts nothing on the nextTick queue and has invoked
\* the routine it was given when it returns or raises (each: its done
\* routine, and either routine when the engine fails); only the constructor
\* defers a routine to a later turn.
C25_OnlyConstructorDefers ==
    [][(call.op = "none" /\ call'.op # "none") =>
          /\ call'.op \notin {"new Database", "nextTick"} =>
                /\ ticks' = ticks
                /\ opened' = opened
                /\ (call'.op \in ImmediateOps /\ call'.routines # <<>>) =>
                      call'.done.inv # <<>>
                /\ (call'.op \in EachOps /\ call'.routines # <<>>
                       /\ (Len(call'.routines) = 2
                              \/ \E i \in DOMAIN call'.done.engine :
                                    call'.done.engine[i].err \in EngineErrors)) =>
                      call'.done.inv # <<>>
          /\ Len(ticks') > Len(ticks) =>
                /\ call'.op = "new Database"
                /\ call'.done.inv = <<>>]_vars

\* reset with a routine, while an open routine is still queued: reset has
\* invoked its routine, the queue is as it was
C25_ResetInvokedAtOnce ==
    /\ call.op = "Statement.reset"
    /\ call.routines = <<Fn("ok")>>
    /\ Len(call.done.inv) = 1
    /\ Len(ticks) = 1

RECURSIVE Contains(_, _)
\* whether the text s contains the text t
Contains(s, t) ==
    IF Len(s) < Len(t) THEN FALSE
    ELSE IF SubSeq(s, 1, Len(t)) = t THEN TRUE
    ELSE Contains(Tail(s), t)

\* C28: a row inserted with a Date reads back as text that contains the
\* Date's millisecond digits as its fraction ('.123' for
\* 2025-03-15T14:30:45.123Z): what the engine stores and returns for the
\* normalized Date is such text, for every Date of a list that was bound.
C28_MillisecondsKept ==
    (IsArray(nIn) /\ nOut.k = "Array") =>
        \A i \in DOMAIN nIn.items :
            nIn.items[i].k = "Date" =>
                /\ Stored(nOut.items[i]).k = "string"
                /\ Contains(Stored(nOut.items[i]).chars,
                            <<".">> \o Pad(nIn.items[i].ms % 1000, 3))

\* the Date of the year 10000 with 7 ms: the text ends at the point
C28_FractionCutOff ==
    /\ nIn = Array(<<Date10000>>)
    /\ nOut.k = "Array"
    /\ Len(nOut.items[1].chars) = 23
    /\ nOut.items[1].chars[23] = "."
    /\ ~Contains(nOut.items[1].chars, <<".", "0", "0", "7">>)

ActingConn == IF call'.on \in Conns THEN call'.on ELSE stmts[call'.on].db

\* C27: a call on one connection, or on a Statement it prepared, leaves the
\* other connection's handle, table, open count and Statements with their
\* bound parameters as they were, whether the call succeeds or fails; a
\* Statement returned by prepare belongs to the connection prepare was
\* called on and stays with it.
C27_ConnectionsIndependent ==
    [][(call.op = "none" /\ call'.op \notin {"none", "nextTick"}) =>
          /\ \A other \in Conns \ {ActingConn} :
                /\ dbs'[other] = dbs[other]
                /\ tables'[other] = tables[other]
                /\ opened'[other] = opened[other]
                /\ \A s \in StmtIds :
                      stmts[s].db = other => stmts'[s] = stmts[s]
          /\ \A s \in StmtIds :
                stmts[s] # NoStatement => stmts'[s].db = stmts[s].db
          /\ (call'.op = "Database.prepare" /\ call'.done.outcome = "returned"
                 /\ call'.done.ret.k = "Statement") =>
                /\ stmts[call'.done.ret.id] = NoStatement
                /\ stmts'[call'.done.ret.id].db = call'.on]_vars

\* B holds a row and a Statement with bound parameters while a run on A
\* has just failed and A's own Statement has inserted into A
C27_FailureOnANextToB ==
    /\ call.op = "Database.run"
    /\ call.on = "A"
    /\ call.done.outcome = "threw"
    /\ dbs["B"] = "open"
    /\ stmts["s2"].db = "B"
    /\ stmts["s2"].bound = Array(<<Num(2)>>)
    /\ stmts["s1"].db = "A"
    /\ Len(tables["A"]) = 1
    /\ Len(tables["B"]) = 2

\* C29: run, get, all, each, reset and finalize of a Statement, and every
\* call on a Database, leave boundParams of every Statement as it was, on
\* success and on failure; bind stores its arguments; an execute call
\* without parameters hands the engine the normalized bound ones, one with
\* parameters hands it those.
C29_OnlyBindChangesBound ==
    [][(call.op = "none" /\ call'.op # "none") =>
          /\ call'.op # "Statement.bind" =>
                \A s \in StmtIds :
                    stmts[s] # NoStatement => stmts'[s].bound = stmts[s].bound
          /\ call'.op = "Statement.bind" =>
                stmts'[call'.on].bound = Array(call'.args)
          /\ (call'.op \in StatementParamOps /\ call'.done.engine # <<>>) =>
                LET st == stmts[call'.on]
                    explicit == SelectSeq(call'.args, NotFunction)
                    used == IF explicit = <<>> /\ st.bound.k # "undefined"
                            THEN st.bound.items ELSE explicit
                IN  call'.done.engine[1].args = normalizeParams(Array(used)).items]_vars

\* a run without parameters after bind(date) has inserted the second row
\* from the bound Date
C29_BoundUsedAgain ==
    /\ call.op = "Statement.run"
    /\ call.args = <<>>
    /\ call.done.outcome = "returned"
    /\ stmts[call.on].bound = Array(<<Date2024>>)
    /\ sources["A"] = <<Date2024, Date2024>>
    /\ call.done.engine[1].args = <<Text2024>>

=============================================================================
